---- MODULE Spec2Model ----
(***************************************************************************)
(* Session lifecycle and message relay of the Discord <-> ADK agent bot    *)
(* (src/run.py).                                                           *)
(*                                                                         *)
(* The bot runs on one asyncio event loop.  discord.py schedules one       *)
(* on_message task per incoming message; a task only gives up the loop at  *)
(* an await that really suspends.  create_adk_session and                  *)
(* send_query_to_adk contain no await (requests.post blocks), so each of   *)
(* them runs to completion inside the step that calls it.  The points      *)
(* where handlers interleave are therefore:                                *)
(*   - entering "async with message.channel.typing()"   (line 185),        *)
(*   - "await message.channel.send(...)"                (158, 178, 187).   *)
(***************************************************************************)
EXTENDS Integers, Sequences, FiniteSets, TLC

(***************************************************************************)
(* Bounds of the model.                                                    *)
(***************************************************************************)
MaxMsgs  == 2   \* messages delivered to on_message
MaxUsers == 2   \* distinct human users
MaxTurns == 2   \* turns in a /run response body
MaxParts == 2   \* parts of one turn's content

Handlers == 1..MaxMsgs

(***************************************************************************)
(* Python values.  None is Python's None; strings are TLA+ strings.        *)
(***************************************************************************)
None == "None"

\* Truth value testing of a str-or-None value ("if x:", "if not x:").
Truthy(v) == v # None /\ v # ""

DigitChar(d) ==
  CASE d = 0 -> "0" [] d = 1 -> "1" [] d = 2 -> "2" [] d = 3 -> "3"
    [] d = 4 -> "4" [] d = 5 -> "5" [] d = 6 -> "6" [] d = 7 -> "7"
    [] d = 8 -> "8" [] d = 9 -> "9"

\* str(n) of a non-negative int: its decimal digits.
RECURSIVE Str(_)
Str(n) == IF n < 10 THEN DigitChar(n) ELSE Str(n \div 10) \o DigitChar(n % 10)

(***************************************************************************)
(* The chat platform's inputs: message.author.id, client.user, the channel *)
(* kind and message.content.                                               *)
(***************************************************************************)
BotUser  == 8
Users    == 9..(8 + MaxUsers)
Channels == {"DM", "Guild"}
Contents == {"", "hello"}

NoMessage == [author |-> BotUser, channel |-> "none", content |-> ""]

(***************************************************************************)
(* The fixed reply texts of run.py.                                        *)
(***************************************************************************)
GREETING       == "Hello! How can I help you today?"
CREATE_FAILED  == "Sorry, I couldn't create a new support session. Please try again later."
SESSION_ISSUE  == "There was an issue with your session. Please try again."
NOT_UNDERSTOOD == "Sorry, I couldn't understand the response from the agent."
RESEND_APOLOGY == "Oops. There was an error. Re-sending your question usually fixes it. (It's a session management bug)."
UNEXPECTED     == "Sorry, I received an unexpected response from the support agent."

(***************************************************************************)
(* user_sessions: a Python dict, here a function whose domain is the set   *)
(* of keys present.                                                        *)
(***************************************************************************)
EmptyDict == [k \in {} |-> None]

\* dict.get(k): the value, or None when the key is absent.
DictGet(d, k) == IF k \in DOMAIN d THEN d[k] ELSE None

\* d[k] = v
DictSet(d, k, v) == [x \in (DOMAIN d) \cup {k} |-> IF x = k THEN v ELSE d[x]]

\* Variant: clear() is left out.
DictKeep(d) == d

\* d.clear()
DictClear(d) == EmptyDict

(***************************************************************************)
(* The backend's answer to POST {base}/run, as send_query_to_adk sees it:  *)
(*   neterr      requests.post raises (connection error, timeout)          *)
(*   httperr     raise_for_status raises HTTPError (status 4xx/5xx)        *)
(*   badjson     status 2xx, the body is not JSON: response.json() raises  *)
(*   json_other  status 2xx, the body is JSON but not an array of objects  *)
(*               (null, a number, an object with keys, an array holding a  *)
(*               non-object): reversed() or item.get raises TypeError or   *)
(*               AttributeError                                            *)
(*   json_turns  status 2xx, the body is an array of turn objects          *)
(* A turn is a dict that may hold "content": {"role": r, "parts": [...]};  *)
(* a part is a dict that may hold "text".                                  *)
(***************************************************************************)
Texts == {"Hi there!", "Bye"}
Roles == {"model", "user"}
Parts == {[text |-> t] : t \in Texts} \cup {[functionCall |-> "lookup"]}

SeqsUpTo(S, n) == UNION {[1..k -> S] : k \in 0..n}

Turns ==
  {[author |-> "agent"]} \cup
  {[content |-> [role |-> r, parts |-> ps]] : r \in Roles, ps \in SeqsUpTo(Parts, MaxParts)}

FailedResponses == {[kind |-> k] : k \in {"neterr", "httperr", "badjson", "json_other"}}

TurnResponses(n) == {[kind |-> "json_turns", data |-> d] : d \in SeqsUpTo(Turns, n)}

Responses == FailedResponses \cup TurnResponses(MaxTurns)

\* The responses the relay is run against: every failure kind, the empty
\* body [] and every body of one turn with at most one part.  Bodies of
\* several turns and parts are covered by ExtractSpec below.
RelayResponses ==
  FailedResponses \cup
  {r \in TurnResponses(1) :
     \A i \in 1..Len(r.data) :
        "content" \in DOMAIN r.data[i] => Len(r.data[i]["content"]["parts"]) <= 1}

\* for part in parts: if "text" in part: return part["text"]
RECURSIVE FirstText(_)
FirstText(parts) ==
  IF parts = <<>> THEN None
  ELSE IF "text" \in DOMAIN Head(parts) THEN Head(parts)["text"]
  ELSE FirstText(Tail(parts))

HasText(parts) == \E i \in 1..Len(parts) : "text" \in DOMAIN parts[i]

\* Variant: the role is not looked at.
IgnoreRole(item) == "content" \in DOMAIN item

\* item.get("content") and item.get("content").get("role") == "model"
IsModelTurn(item) ==
  /\ "content" \in DOMAIN item
  /\ "role" \in DOMAIN item["content"]
  /\ item["content"]["role"] = "model"

\* item["content"].get("parts", [])
PartsOf(item) ==
  IF "parts" \in DOMAIN item["content"] THEN item["content"]["parts"] ELSE <<>>

\* Variant: the turns are scanned oldest first (reversed() left out).
RECURSIVE ScanUp(_, _, _)
ScanUp(response_data, k, n) ==
  IF k > n THEN NOT_UNDERSTOOD
  ELSE IF "content" \in DOMAIN response_data[k]
          /\ response_data[k]["content"]["role"] = "model"
          /\ \E j \in 1..Len(response_data[k]["content"]["parts"]) :
                "text" \in DOMAIN response_data[k]["content"]["parts"][j]
       THEN FirstText(response_data[k]["content"]["parts"])
       ELSE ScanUp(response_data, k + 1, n)
ScanOldestFirst(response_data, i) == ScanUp(response_data, 1, i)

\* for item in reversed(response_data): ...; return "Sorry, I couldn't understand..."
\* (lines 115-121), scanning from index i down to 1.
RECURSIVE ScanReversed(_, _)
ScanReversed(response_data, i) ==
  IF i = 0 THEN NOT_UNDERSTOOD
  ELSE IF IsModelTurn(response_data[i]) /\ HasText(PartsOf(response_data[i]))
       THEN FirstText(PartsOf(response_data[i]))
       ELSE ScanReversed(response_data, i - 1)

\* The classes (the exception's own class and the bases the handlers name)
\* of the exception the try block raises for a response; {} when it returns.
\* response.json() on a non-JSON body raises requests.exceptions.JSONDecodeError,
\* a subclass of both json.JSONDecodeError and RequestException, from
\* requests 2.27 on; before, it raises json.JSONDecodeError alone.
ExceptionRaised(resp, jsonErrIsRequestExc) ==
  CASE resp.kind = "neterr"     -> {"ConnectionError", "RequestException"}
    [] resp.kind = "httperr"    -> {"HTTPError", "RequestException"}
    [] resp.kind = "badjson"    -> IF jsonErrIsRequestExc
                                   THEN {"JSONDecodeError", "RequestException"}
                                   ELSE {"JSONDecodeError"}
    [] resp.kind = "json_other" -> {"AttributeError"}
    [] OTHER                    -> {}

\* except requests.exceptions.RequestException (line 122)
TransportClause == {"RequestException"}
\* except (json.JSONDecodeError, KeyError) (line 126)
ParseClause == {"JSONDecodeError", "KeyError"}

\* send_query_to_adk (lines 109-128): [raised, ret, sessions, cleared].
\* raised = None when the call returns ret; otherwise the exception, which
\* neither except clause names, propagates to the caller.  sessions is
\* user_sessions after the call, cleared tells whether line 124 ran.
send_query_to_adk(resp, sessions, jsonErrIsRequestExc) ==
  LET exc == ExceptionRaised(resp, jsonErrIsRequestExc) IN
  IF exc = {} THEN
    [raised |-> None, ret |-> ScanReversed(resp.data, Len(resp.data)),
     sessions |-> sessions, cleared |-> FALSE]
  ELSE IF exc \cap TransportClause # {} THEN
    [raised |-> None, ret |-> RESEND_APOLOGY,
     sessions |-> DictClear(sessions), cleared |-> TRUE]
  ELSE IF exc \cap ParseClause # {} THEN
    [raised |-> None, ret |-> UNEXPECTED, sessions |-> sessions, cleared |-> FALSE]
  ELSE
    [raised |-> "AttributeError", ret |-> None, sessions |-> sessions,
     cleared |-> FALSE]

\* Variant: every call draws the same identifier.
Uuid4Fixed(n) == "uuid-" \o Str(0)

\* uuid.uuid4(): the n-th identifier drawn; no two draws are equal.
Uuid4(n) == "uuid-" \o Str(n)

\* Variant: the raw user id is used as the ADK user id.
create_adk_session_raw_id(discord_user_id, n, ok) ==
  LET adk_user_id    == discord_user_id
      adk_session_id == Uuid4(n)
  IN  IF ok THEN <<adk_user_id, adk_session_id>> ELSE <<None, None>>

\* create_adk_session(discord_user_id): <<adk_user_id, adk_session_id>>, or
\* <<None, None>> when the POST raises a RequestException (lines 72-90).
create_adk_session(discord_user_id, n, ok) ==
  LET adk_user_id    == "discord_" \o discord_user_id
      adk_session_id == Uuid4(n)
  IN  IF ok THEN <<adk_user_id, adk_session_id>> ELSE <<None, None>>

(***************************************************************************)
(* State.                                                                  *)
(***************************************************************************)
VARIABLES
  user_sessions,        \* the module-level dict (line 27)
  pc,                   \* per handler: where its on_message task stands
  msg,                  \* per handler: the message it was called with
  adk_session_id,       \* per handler: the local of that name
  current_adk_user_id,  \* per handler: the local of that name
  looked,               \* per handler: what user_sessions.get returned (164)
  replies,              \* per handler: the texts passed to channel.send
  calls,                \* per handler: the backend calls it made, in order
  registered,           \* per handler: "no", "live" once it wrote its session to
                        \* user_sessions, "cleared" once a clear() followed
  uuids,                \* how many uuid4 identifiers were drawn
  jsonErrIsRequestExc,  \* the installed requests: is its JSON error a RequestException
  response_data,        \* ExtractSpec: the /run response body examined
  adk_response          \* ExtractSpec: what send_query_to_adk gave for it

vars == <<user_sessions, pc, msg, adk_session_id, current_adk_user_id, looked,
          replies, calls, registered, uuids, jsonErrIsRequestExc, response_data,
          adk_response>>

NotLooked  == "NotLooked"
NoResponse == [kind |-> "none"]
NotRun     == [raised |-> None, ret |-> None, sessions |-> EmptyDict,
               cleared |-> FALSE]

Messages == [author : Users \cup {BotUser}, channel : Channels, content : Contents]

Init ==
  /\ user_sessions = EmptyDict
  /\ pc = [h \in Handlers |-> "new"]
  /\ msg = [h \in Handlers |-> NoMessage]
  /\ adk_session_id = [h \in Handlers |-> None]
  /\ current_adk_user_id = [h \in Handlers |-> None]
  /\ looked = [h \in Handlers |-> NotLooked]
  /\ replies = [h \in Handlers |-> <<>>]
  /\ calls = [h \in Handlers |-> <<>>]
  /\ registered = [h \in Handlers |-> "no"]
  /\ uuids = 0
  /\ jsonErrIsRequestExc \in BOOLEAN
  /\ response_data = NoResponse
  /\ adk_response = NotRun

(***************************************************************************)
(* on_message, lines 145-185: from the call up to the first suspension.    *)
(***************************************************************************)
\* Variant: the empty-text test is left out.
NeverEmptyContent(content) == FALSE

\* "if not content_to_send" (line 156)
IsEmptyContent(content) == ~Truthy(content)

\* Variants: a session is created for every message / for none.
AlwaysMissing(session) == TRUE
NeverMissing(session) == FALSE

\* "if adk_session_id: ... else:" (lines 167, 170): the miss branch is taken
SessionMissing(session) == ~Truthy(session)

\* Variants: the result is stored untested / is never stored.
RegisterAlways(sessions, discord_user_id, created_session_id) ==
  DictSet(sessions, discord_user_id, created_session_id)
RegisterNothing(sessions, discord_user_id, created_session_id) == sessions

\* "if created_session_id: user_sessions[discord_user_id] = created_session_id"
\* (lines 173-174)
RegisterSession(sessions, discord_user_id, created_session_id) ==
  IF Truthy(created_session_id)
  THEN DictSet(sessions, discord_user_id, created_session_id)
  ELSE sessions

CreateCall(h, discord_user_id, n, ok) ==
  [op |-> "CreateSession", h |-> h,
   userId |-> "discord_" \o Str(discord_user_id), sessionId |-> Uuid4(n),
   outcome |-> IF ok THEN "ok" ELSE "failed", ret |-> None]

\* Variant: only the bot's own messages are ignored.
IgnoresOnlyBot(m) == m.author = BotUser

\* "if message.author == client.user: return" and
\* "if not isinstance(message.channel, discord.DMChannel): return"
\* (lines 147-152)
IsIgnored(m) == m.author = BotUser \/ m.channel # "DM"

Ignore(h) ==
  /\ pc' = [pc EXCEPT ![h] = "done"]
  /\ UNCHANGED <<user_sessions, adk_session_id, current_adk_user_id, looked,
                 replies, calls, registered, uuids>>

\* await message.channel.send(text); return
ReplyAndReturn(h, text) ==
  /\ replies' = [replies EXCEPT ![h] = Append(@, text)]
  /\ pc' = [pc EXCEPT ![h] = "sending"]

on_message(h) ==
  /\ pc[h] = "new"
  /\ IF h = 1 THEN TRUE ELSE pc[h - 1] # "new"   \* messages arrive in order
  /\ \E m \in Messages, ok \in BOOLEAN :
       /\ msg' = [msg EXCEPT ![h] = m]
       /\ IF IsIgnored(m) THEN Ignore(h)
          ELSE IF IsEmptyContent(m.content) THEN
            /\ ReplyAndReturn(h, GREETING)
            /\ UNCHANGED <<user_sessions, adk_session_id, current_adk_user_id,
                           looked, calls, registered, uuids>>
          ELSE
            LET discord_user_id == m.author
                adk_user_id_str == "discord_" \o Str(discord_user_id)
                found           == DictGet(user_sessions, discord_user_id)
                miss            == SessionMissing(found)
                created         == create_adk_session(Str(discord_user_id), uuids + 1, ok)
                sessions        == IF miss
                                   THEN RegisterSession(user_sessions, discord_user_id, created[2])
                                   ELSE user_sessions
                session         == IF miss THEN created[2] ELSE found
                user            == IF miss THEN created[1] ELSE adk_user_id_str
            IN  /\ looked' = [looked EXCEPT ![h] = found]
                /\ user_sessions' = sessions
                /\ calls' = IF miss
                            THEN [calls EXCEPT ![h] =
                                    Append(@, CreateCall(h, discord_user_id, uuids + 1, ok))]
                            ELSE calls
                /\ registered' = IF miss /\ Truthy(created[2])
                                 THEN [registered EXCEPT ![h] = "live"]
                                 ELSE registered
                /\ uuids' = IF miss THEN uuids + 1 ELSE uuids
                /\ IF miss /\ ~Truthy(created[2]) THEN
                     /\ ReplyAndReturn(h, CREATE_FAILED)
                     /\ UNCHANGED <<adk_session_id, current_adk_user_id>>
                   ELSE
                     /\ adk_session_id' = [adk_session_id EXCEPT ![h] = session]
                     /\ current_adk_user_id' = [current_adk_user_id EXCEPT ![h] = user]
                     /\ IF ~Truthy(user) \/ ~Truthy(session)
                        THEN ReplyAndReturn(h, SESSION_ISSUE)
                        ELSE /\ pc' = [pc EXCEPT ![h] = "typing"]
                             /\ UNCHANGED replies
  /\ UNCHANGED <<jsonErrIsRequestExc, response_data, adk_response>>

(***************************************************************************)
(* on_message, lines 185-187: the typing context is entered; the handler   *)
(* calls send_query_to_adk, which runs to its end without suspending, and  *)
(* passes what it returns to message.channel.send.  An exception that      *)
(* send_query_to_adk lets through ends the task before line 187.           *)
(***************************************************************************)
\* How the spec's error taxonomy (4.1) classes a /run response.
ResponseClass(resp) ==
  CASE resp.kind \in {"neterr", "httperr"}   -> "transport"
    [] resp.kind \in {"badjson", "json_other"} -> "invalid"
    [] OTHER -> IF \E i \in 1..Len(resp.data) :
                     /\ "content" \in DOMAIN resp.data[i]
                     /\ resp.data[i]["content"]["role"] = "model"
                     /\ \E j \in 1..Len(resp.data[i]["content"]["parts"]) :
                           "text" \in DOMAIN resp.data[i]["content"]["parts"][j]
                THEN "text" ELSE "no_text"

SendCall(h, resp, result) ==
  [op |-> "SendMessage", h |-> h,
   userId |-> current_adk_user_id[h], sessionId |-> adk_session_id[h],
   outcome |-> ResponseClass(resp), ret |-> result.ret]

\* Variant: after a RequestException the handler calls again instead of
\* replying.
send_query_retrying(h) ==
  /\ pc[h] = "typing"
  /\ \E resp \in RelayResponses :
       LET result == send_query_to_adk(resp, user_sessions, jsonErrIsRequestExc) IN
       /\ calls' = [calls EXCEPT ![h] = Append(@, SendCall(h, resp, result))]
       /\ user_sessions' = result.sessions
       /\ registered' = IF result.cleared
                        THEN [g \in Handlers |->
                                IF registered[g] = "live" THEN "cleared" ELSE registered[g]]
                        ELSE registered
       /\ IF result.raised # None
          THEN /\ pc' = [pc EXCEPT ![h] = "raised"]
               /\ UNCHANGED replies
          ELSE IF result.cleared
          THEN UNCHANGED <<pc, replies>>
          ELSE ReplyAndReturn(h, result.ret)
  /\ UNCHANGED <<msg, adk_session_id, current_adk_user_id, looked, uuids,
                 jsonErrIsRequestExc, response_data, adk_response>>

send_query(h) ==
  /\ pc[h] = "typing"
  /\ \E resp \in RelayResponses :
       LET result == send_query_to_adk(resp, user_sessions, jsonErrIsRequestExc) IN
       /\ calls' = [calls EXCEPT ![h] = Append(@, SendCall(h, resp, result))]
       /\ user_sessions' = result.sessions
       /\ registered' = IF result.cleared
                        THEN [g \in Handlers |->
                                IF registered[g] = "live" THEN "cleared" ELSE registered[g]]
                        ELSE registered
       /\ IF result.raised # None
          THEN /\ pc' = [pc EXCEPT ![h] = "raised"]
               /\ UNCHANGED replies
          ELSE ReplyAndReturn(h, result.ret)
  /\ UNCHANGED <<msg, adk_session_id, current_adk_user_id, looked, uuids,
                 jsonErrIsRequestExc, response_data, adk_response>>

\* The awaited channel.send completes and on_message returns.
reply_sent(h) ==
  /\ pc[h] = "sending"
  /\ pc' = [pc EXCEPT ![h] = "done"]
  /\ UNCHANGED <<user_sessions, msg, adk_session_id, current_adk_user_id, looked,
                 replies, calls, registered, uuids, jsonErrIsRequestExc,
                 response_data, adk_response>>

Next ==
  \/ \E h \in Handlers : on_message(h)
  \/ \E h \in Handlers : send_query(h)
  \/ \E h \in Handlers : reply_sent(h)

Spec == Init /\ [][Next]_vars

(***************************************************************************)
(* Reply extraction on its own: send_query_to_adk applied once to each     *)
(* response of the bounded set, from an empty registry.                    *)
(***************************************************************************)
ExtractInit ==
  /\ user_sessions = EmptyDict
  /\ pc = [h \in Handlers |-> "new"]
  /\ msg = [h \in Handlers |-> NoMessage]
  /\ adk_session_id = [h \in Handlers |-> None]
  /\ current_adk_user_id = [h \in Handlers |-> None]
  /\ looked = [h \in Handlers |-> NotLooked]
  /\ replies = [h \in Handlers |-> <<>>]
  /\ calls = [h \in Handlers |-> <<>>]
  /\ registered = [h \in Handlers |-> "no"]
  /\ uuids = 0
  /\ jsonErrIsRequestExc \in BOOLEAN
  /\ response_data \in Responses
  /\ adk_response = NotRun

Extract ==
  /\ adk_response = NotRun
  /\ adk_response' = send_query_to_adk(response_data, user_sessions, jsonErrIsRequestExc)
  /\ adk_response' # NotRun
  /\ UNCHANGED <<user_sessions, pc, msg, adk_session_id, current_adk_user_id,
                 looked, replies, calls, registered, uuids, jsonErrIsRequestExc,
                 response_data>>

ExtractNext == Extract

ExtractSpec == ExtractInit /\ [][ExtractNext]_vars

(***************************************************************************)
(* Vocabulary of the properties.                                           *)
(***************************************************************************)
\* Handler h was called with a direct message of a human user.
Processed(h) == pc[h] # "new" /\ msg[h].author # BotUser /\ msg[h].channel = "DM"

Author(h) == msg[h].author

CallIdx(h, op) == {i \in 1..Len(calls[h]) : calls[h][i].op = op}

\* The lookup of line 164 found no entry / found the entry looked[h].
Missed(h) == Processed(h) /\ looked[h] = None
Hit(h)    == Processed(h) /\ looked[h] \notin {None, NotLooked}

CreateOk(h)     == \E i \in CallIdx(h, "CreateSession") : calls[h][i].outcome = "ok"
CreateFailed(h) == \E i \in CallIdx(h, "CreateSession") : calls[h][i].outcome = "failed"
SendEnded(h, outcome) ==
  \E i \in CallIdx(h, "SendMessage") : calls[h][i].outcome = outcome

\* In this step handler h made a call of the given kind and outcome.
CallStep(h, op, outcome) ==
  /\ Len(calls'[h]) = Len(calls[h]) + 1
  /\ calls'[h][Len(calls'[h])].op = op
  /\ calls'[h][Len(calls'[h])].outcome = outcome

\* The SendMessage calls of h that ran user_sessions.clear() (line 124).
Clearing(h) ==
  {i \in CallIdx(h, "SendMessage") : calls[h][i].ret = RESEND_APOLOGY}

(***************************************************************************)
(* C1.  A handler that finds no registry entry for the author of a         *)
(* non-empty direct message makes exactly one CreateSession call, and that *)
(* call comes before every SendMessage call the handler makes.             *)
(***************************************************************************)
C1_OneCreateBeforeSend ==
  \A h \in Handlers :
    Missed(h) =>
      /\ Cardinality(CallIdx(h, "CreateSession")) = 1
      /\ \A i \in CallIdx(h, "CreateSession"), j \in CallIdx(h, "SendMessage") : i < j
      /\ \A i \in CallIdx(h, "CreateSession") :
           calls[h][i].userId = "discord_" \o Str(Author(h))

C1_Witness ==
  \E h \in Handlers :
    /\ Missed(h)
    /\ Cardinality(CallIdx(h, "CreateSession")) = 1
    /\ Cardinality(CallIdx(h, "SendMessage")) = 1

(***************************************************************************)
(* C2.  A handler that finds the entry U -> S at its lookup makes no       *)
(* CreateSession call, and every SendMessage call it makes names S.        *)
(***************************************************************************)
C2_HitReusesSession ==
  \A h \in Handlers :
    Hit(h) =>
      /\ CallIdx(h, "CreateSession") = {}
      /\ \A i \in CallIdx(h, "SendMessage") : calls[h][i].sessionId = looked[h]

C2_Witness ==
  \E h \in Handlers :
    /\ Hit(h)
    /\ \E i \in CallIdx(h, "SendMessage") : calls[h][i].sessionId = looked[h]

(***************************************************************************)
(* C3.  In every step in which a SendMessage call ends in TransportFailure *)
(* (network error or HTTP error status), user_sessions is empty after the  *)
(* step and the handler's reply is the resend apology.                     *)
(***************************************************************************)
C3_TransportFailureClearsAll ==
  [][\A h \in Handlers :
       CallStep(h, "SendMessage", "transport") =>
         /\ user_sessions' = EmptyDict
         /\ replies'[h] = Append(replies[h], RESEND_APOLOGY)]_vars

\* A transport failure of h, the only clearing call so far, has just emptied
\* a registry that held the session of another user's handler g.
C3_Witness ==
  \E h, g \in Handlers :
    /\ SendEnded(h, "transport") /\ pc[h] = "sending"
    /\ user_sessions = EmptyDict
    /\ \A k \in Handlers : Clearing(k) # {} => k = h
    /\ Processed(g) /\ Author(g) # Author(h) /\ registered[g] = "cleared"

(***************************************************************************)
(* C4.  In every step in which a SendMessage call ends in ParseFailure     *)
(* (the body is not valid structured data, or holds no model-role text     *)
(* part), the handler replies with a fixed error text and user_sessions is *)
(* what it was before the step.                                            *)
(***************************************************************************)
FixedErrorTexts == {UNEXPECTED, NOT_UNDERSTOOD, RESEND_APOLOGY}

C4_ParseFailureLeavesRegistry ==
  [][\A h \in Handlers :
       (CallStep(h, "SendMessage", "invalid") \/ CallStep(h, "SendMessage", "no_text")) =>
         /\ user_sessions' = user_sessions
         /\ \E t \in FixedErrorTexts : replies'[h] = Append(replies[h], t)]_vars

(***************************************************************************)
(* C5.  In the step in which a handler's CreateSession call fails, the     *)
(* handler replies "couldn't create session" and user_sessions is what it  *)
(* was before; from then on the handler makes no SendMessage call, sends   *)
(* no other reply and only finishes.                                       *)
(***************************************************************************)
C5_CreateFailureTerminates ==
  [][\A h \in Handlers :
       /\ CallStep(h, "CreateSession", "failed") =>
            /\ user_sessions' = user_sessions
            /\ replies'[h] = <<CREATE_FAILED>>
       /\ CreateFailed(h) =>
            /\ calls'[h] = calls[h]
            /\ replies'[h] = replies[h]
            /\ pc'[h] \in {"sending", "done"}]_vars

\* A handler whose CreateSession failed has finished while the registry
\* holds another handler's session, and it never called SendMessage.
C5_Witness ==
  \E h \in Handlers :
    /\ CreateFailed(h) /\ pc[h] = "done"
    /\ CallIdx(h, "SendMessage") = {}
    /\ replies[h] = <<CREATE_FAILED>>
    /\ user_sessions # EmptyDict
    /\ Author(h) \notin DOMAIN user_sessions

(***************************************************************************)
(* C6.  Every processed direct message gets exactly one reply: never more  *)
(* than one, and exactly one once its handler has ended.                   *)
(***************************************************************************)
C6_ExactlyOneReply ==
  \A h \in Handlers :
    Processed(h) =>
      /\ Len(replies[h]) <= 1
      /\ pc[h] \in {"done", "raised"} => Len(replies[h]) = 1

(***************************************************************************)
(* C7.  In the step that handles a direct message with empty text, the     *)
(* handler makes no backend call, leaves user_sessions as it was and       *)
(* replies with the greeting; afterwards it makes no call and sends no     *)
(* other reply.                                                            *)
(***************************************************************************)
EmptyText(h) == Processed(h) /\ msg[h].content = ""

C7_EmptyTextShortCircuits ==
  [][\A h \in Handlers :
       /\ (pc[h] = "new" /\ EmptyText(h)') =>
            /\ user_sessions' = user_sessions
            /\ calls' = calls
            /\ uuids' = uuids
            /\ replies'[h] = <<GREETING>>
       /\ EmptyText(h) =>
            /\ calls'[h] = <<>>
            /\ replies'[h] = <<GREETING>>
            /\ pc'[h] \in {"sending", "done"}]_vars

\* An empty message of a user whose session, registered by an earlier
\* handler, is in the registry has been answered with the greeting.
C7_Witness ==
  \E h, g \in Handlers :
    /\ EmptyText(h) /\ pc[h] = "done" /\ replies[h] = <<GREETING>>
    /\ g < h /\ Processed(g) /\ Author(g) = Author(h) /\ registered[g] = "live"
    /\ Author(h) \in DOMAIN user_sessions

(***************************************************************************)
(* Vocabulary for response bodies, stated on the body itself.              *)
(***************************************************************************)
Max(S) == CHOOSE x \in S : \A y \in S : y <= x
Min(S) == CHOOSE x \in S : \A y \in S : x <= y

RoleOf(turn) == IF "content" \in DOMAIN turn THEN turn["content"]["role"] ELSE None

TextIdx(turn) ==
  IF "content" \in DOMAIN turn
  THEN {j \in 1..Len(turn["content"]["parts"]) :
          "text" \in DOMAIN turn["content"]["parts"][j]}
  ELSE {}

FirstTextOf(turn) == turn["content"]["parts"][Min(TextIdx(turn))]["text"]

ModelTurns(data)     == {i \in 1..Len(data) : RoleOf(data[i]) = "model"}
ModelTextTurns(data) == {i \in ModelTurns(data) : TextIdx(data[i]) # {}}

\* send_query_to_adk has been applied to a body that is an array of turns.
Extracted == adk_response # NotRun /\ response_data.kind = "json_turns"

(***************************************************************************)
(* C8 (as amended).  For every response that holds a model-role text part, *)
(* the extracted reply is the first text part of the most recent           *)
(* model-role turn that has a text part.                                   *)
(***************************************************************************)
C8_ReplyIsLatestModelText ==
  (Extracted /\ ModelTextTurns(response_data.data) # {}) =>
     /\ adk_response.raised = None
     /\ adk_response.ret =
          FirstTextOf(response_data.data[Max(ModelTextTurns(response_data.data))])

\* Two model turns with different first texts; the later one's first part
\* holds no text, and its first text part is what was extracted.
C8_Witness ==
  /\ Extracted
  /\ \E i, j \in ModelTextTurns(response_data.data) :
       /\ i < j /\ j = Max(ModelTurns(response_data.data))
       /\ 1 \notin TextIdx(response_data.data[j])
       /\ FirstTextOf(response_data.data[i]) # FirstTextOf(response_data.data[j])
       /\ adk_response.ret = FirstTextOf(response_data.data[j])

(***************************************************************************)
(* C8 (as claimed).  For every response that holds a model-role text part, *)
(* the extracted reply is the first text part of the most recent turn      *)
(* whose role is "model".                                                  *)
(***************************************************************************)
C8_ReplyIsTextOfLatestModelTurn ==
  (Extracted /\ ModelTextTurns(response_data.data) # {}) =>
     /\ TextIdx(response_data.data[Max(ModelTurns(response_data.data))]) # {}
     /\ adk_response.ret =
          FirstTextOf(response_data.data[Max(ModelTurns(response_data.data))])

(***************************************************************************)
(* C9.  For every response that is an array of turns none of which has     *)
(* role "model", send_query_to_adk returns the "couldn't understand" text  *)
(* and raises nothing.                                                     *)
(***************************************************************************)
C9_NoModelTurnGivesFixedText ==
  (Extracted /\ ModelTurns(response_data.data) = {}) =>
     /\ adk_response.raised = None
     /\ adk_response.ret = NOT_UNDERSTOOD

\* A body without model turns in which a user-role turn holds a text part.
C9_Witness ==
  /\ Extracted
  /\ ModelTurns(response_data.data) = {}
  /\ \E i \in 1..Len(response_data.data) :
       RoleOf(response_data.data[i]) = "user" /\ TextIdx(response_data.data[i]) # {}
  /\ adk_response.ret = NOT_UNDERSTOOD

(***************************************************************************)
(* C10.  The first-contact scenario: a handler found no entry for U, its   *)
(* CreateSession gave S, its SendMessage gave the reply text R, and it has *)
(* finished.                                                               *)
(***************************************************************************)
FirstContactDone(h) ==
  /\ Missed(h) /\ pc[h] = "done"
  /\ CreateOk(h) /\ SendEnded(h, "text")

(***************************************************************************)
(* C10 (as amended).  In the first-contact scenario the single reply sent  *)
(* is R, and user_sessions maps U to S when the handler finishes unless a  *)
(* SendMessage call has cleared user_sessions since the handler stored S.  *)
(***************************************************************************)
C10_FirstContactUnlessCleared ==
  \A h \in Handlers :
    FirstContactDone(h) =>
      /\ replies[h] = <<calls[h][2].ret>>
      /\ calls[h][2].ret \in Texts
      /\ calls[h][2].sessionId = calls[h][1].sessionId
      /\ registered[h] \in {"live", "cleared"}
      /\ registered[h] = "live" =>
           DictGet(user_sessions, Author(h)) = calls[h][1].sessionId

\* The scenario has completed, registry entry in place, while the handler
\* of another user's earlier message is still in flight.
C10_Witness ==
  \E h, g \in Handlers :
    /\ FirstContactDone(h) /\ registered[h] = "live"
    /\ DictGet(user_sessions, Author(h)) = calls[h][1].sessionId
    /\ g < h /\ Processed(g) /\ Author(g) # Author(h)
    /\ pc[g] \in {"typing", "sending"}

(***************************************************************************)
(* C10 (as claimed).  In the first-contact scenario, with only handlers of *)
(* other users' messages running beside it, user_sessions maps U to S when *)
(* the handler finishes and the single reply sent is R.                    *)
(***************************************************************************)
C10_FirstContactRegistered ==
  \A h \in Handlers :
    (/\ FirstContactDone(h)
     /\ \A g \in Handlers \ {h} : Processed(g) => Author(g) # Author(h)) =>
      /\ replies[h] = <<calls[h][2].ret>>
      /\ DictGet(user_sessions, Author(h)) = calls[h][1].sessionId

(***************************************************************************)
(* C11.  In every step, each entry U -> S of user_sessions either stays    *)
(* U -> S, or the whole of user_sessions is cleared by a SendMessage call  *)
(* that ended in TransportFailure; an entry for U is written only when U   *)
(* has none.                                                               *)
(***************************************************************************)
C11_EntryPermanentUntilTransportClear ==
  [][\A u \in DOMAIN user_sessions :
       \/ u \in DOMAIN user_sessions' /\ user_sessions'[u] = user_sessions[u]
       \/ /\ user_sessions' = EmptyDict
          /\ \E h \in Handlers : CallStep(h, "SendMessage", "transport")]_vars

(***************************************************************************)
(* C12.  Two handlers g, h of messages of the same user U can both see a   *)
(* registry miss and both call CreateSession with success, the second      *)
(* while the first has not finished.  Whenever that has happened, two      *)
(* different sessions were created for U and both handlers wrote the key   *)
(* U: the second write replaced nothing, because user_sessions was cleared *)
(* after the first (lookup, create and write of one handler are never      *)
(* interleaved with another handler's).                                    *)
(***************************************************************************)
BothMissed(g, h) ==
  /\ g < h /\ Author(g) = Author(h)
  /\ Missed(g) /\ CreateOk(g)
  /\ Missed(h) /\ CreateOk(h)

C12_DoubleMissCreatesTwoSessions ==
  \A g, h \in Handlers :
    BothMissed(g, h) =>
      /\ calls[g][1].sessionId # calls[h][1].sessionId
      /\ calls[g][1].userId = calls[h][1].userId
      /\ registered[g] = "cleared"
      /\ registered[h] \in {"live", "cleared"}
      /\ registered[h] = "live" =>
           DictGet(user_sessions, Author(h)) = calls[h][1].sessionId

\* The second handler has stored its own session under U while the first
\* handler's reply is still being sent.
C12_Witness ==
  \E g, h \in Handlers :
    /\ BothMissed(g, h)
    /\ pc[g] = "sending"
    /\ registered[h] = "live"
    /\ DictGet(user_sessions, Author(h)) = calls[h][1].sessionId
    /\ calls[g][1].sessionId # calls[h][1].sessionId

C14_HandlerEndsReplied ==
  \A h \in Handlers :
    Processed(h) =>
      /\ pc[h] # "raised"
      /\ pc[h] = "typing" => ENABLED send_query(h)
      /\ pc[h] = "sending" => ENABLED reply_sent(h)
      /\ pc[h] = "done" => Len(replies[h]) = 1

\* The successful CreateSession records: <<handler, index>>.
CreatedOk ==
  {c \in Handlers \X (1..2) :
     /\ c[2] \in CallIdx(c[1], "CreateSession")
     /\ calls[c[1]][c[2]].outcome = "ok"}

CreatedId(c) == calls[c[1]][c[2]].sessionId

(***************************************************************************)
(* C15.  No two successful CreateSession calls returned the same session   *)
(* id; user_sessions never maps two different users to the same session    *)
(* id; a session created by another handler differs from every session     *)
(* that a global clear has removed.                                        *)
(***************************************************************************)
C15_SessionIdsUnique ==
  /\ \A c, d \in CreatedOk : c # d => CreatedId(c) # CreatedId(d)
  /\ \A u, v \in DOMAIN user_sessions :
       u # v => user_sessions[u] # user_sessions[v]
  /\ \A g, h \in Handlers :
       (g # h /\ registered[g] = "cleared" /\ CreateOk(h)) =>
         calls[h][1].sessionId # calls[g][1].sessionId

\* A session was created and cleared; afterwards two users hold sessions,
\* or the same user holds a new one.
C15_Witness ==
  \E g, h \in Handlers :
    /\ g < h /\ CreateOk(g) /\ CreateOk(h)
    /\ registered[g] = "cleared" /\ registered[h] = "live"
    /\ DictGet(user_sessions, Author(h)) = calls[h][1].sessionId
    /\ calls[h][1].sessionId # calls[g][1].sessionId

(***************************************************************************)
(* C16.  A step that takes up a message written by the bot itself, or one  *)
(* outside a direct-message channel, sends no reply, makes no              *)
(* CreateSession or SendMessage call, leaves user_sessions as it was and   *)
(* ends the handler.                                                       *)
(***************************************************************************)
C16_IgnoredMessageHasNoEffect ==
  [][\A h \in Handlers :
       (/\ pc[h] = "new" /\ pc'[h] # "new"
        /\ (msg'[h].author = BotUser \/ msg'[h].channel # "DM")) =>
         /\ replies' = replies /\ replies'[h] = <<>>
         /\ calls' = calls /\ calls'[h] = <<>>
         /\ user_sessions' = user_sessions
         /\ uuids' = uuids
         /\ pc'[h] = "done"]_vars

\* A user with a registered session wrote outside a direct-message channel
\* and the bot's own message was seen: both handlers ended silently.
C16_Witness ==
  \E g, h \in Handlers :
    /\ registered[g] = "live" /\ pc[g] = "done"
    /\ pc[h] = "done"
    /\ msg[h].author = Author(g) /\ msg[h].channel # "DM"
    /\ msg[h].content # ""
    /\ replies[h] = <<>> /\ calls[h] = <<>>
    /\ DictGet(user_sessions, Author(g)) = calls[g][1].sessionId

(***************************************************************************)
(* C17.  Every SendMessage call of a handler for user U carries the user   *)
(* id "discord_" + U and a session id that an earlier successful           *)
(* CreateSession call for U returned (by the same handler before the send, *)
(* or by a handler of an earlier message); no CreateSession call for       *)
(* another user returned that session id.                                  *)
(***************************************************************************)
C17_SendUsesOwnUsersSession ==
  \A h \in Handlers : \A i \in CallIdx(h, "SendMessage") :
    /\ calls[h][i].userId = "discord_" \o Str(Author(h))
    /\ \E c \in CreatedOk :
         /\ CreatedId(c) = calls[h][i].sessionId
         /\ Author(c[1]) = Author(h)
         /\ calls[c[1]][c[2]].userId = calls[h][i].userId
         /\ c[1] < h \/ (c[1] = h /\ c[2] < i)
    /\ \A c \in CreatedOk :
         Author(c[1]) # Author(h) => CreatedId(c) # calls[h][i].sessionId

\* A send on the miss path, a send on the hit path with the same session,
\* both for the same user.
C17_Witness ==
  \E g, h \in Handlers :
    /\ g < h /\ Author(g) = Author(h)
    /\ Missed(g) /\ CreateOk(g) /\ CallIdx(g, "SendMessage") # {}
    /\ Hit(h) /\ CallIdx(h, "SendMessage") = {1}
    /\ calls[h][1].sessionId = calls[g][1].sessionId
    /\ calls[h][1].userId = "discord_" \o Str(Author(h))

(***************************************************************************)
(* C18.  Every entry U -> S of user_sessions holds a non-empty session id  *)
(* S that a successful CreateSession call for U returned.                  *)
(***************************************************************************)
C18_RegistryHoldsCreatedSessions ==
  \A u \in DOMAIN user_sessions :
    /\ Truthy(user_sessions[u])
    /\ user_sessions[u] # None
    /\ \E c \in CreatedOk :
         /\ CreatedId(c) = user_sessions[u]
         /\ Author(c[1]) = u
         /\ calls[c[1]][c[2]].userId = "discord_" \o Str(u)

\* One user's creation failed, another user's succeeded: only the second
\* is in user_sessions.
C18_Witness ==
  \E g, h \in Handlers :
    /\ CreateFailed(g) /\ CreateOk(h) /\ Author(g) # Author(h)
    /\ DOMAIN user_sessions = {Author(h)}
    /\ user_sessions[Author(h)] = calls[h][1].sessionId

\* In this step handler h made a SendMessage call.
SendStep(h) ==
  /\ Len(calls'[h]) = Len(calls[h]) + 1
  /\ calls'[h][Len(calls'[h])].op = "SendMessage"

\* A global clear has removed session id s from user_sessions.
ClearedSession(s) ==
  \E g \in Handlers :
    /\ CreateOk(g) /\ calls[g][1].sessionId = s
    /\ registered[g] = "cleared"

(***************************************************************************)
(* C19.  When a handler makes its SendMessage call for user U with session *)
(* S, user_sessions maps U to S at that moment, unless a global clear has  *)
(* removed S from user_sessions since S was registered.                    *)
(***************************************************************************)
C19_SendsRegisteredUnlessCleared ==
  [][\A h \in Handlers :
       SendStep(h) =>
         \/ DictGet(user_sessions, Author(h)) = adk_session_id[h]
         \/ ClearedSession(adk_session_id[h])]_vars

\* Two handlers run side by side, nothing has been cleared, and one has
\* made its SendMessage call with the session user_sessions holds.
C19_Witness ==
  \E g, h \in Handlers :
    /\ g # h /\ pc[g] = "typing" /\ pc[h] = "sending"
    /\ CallIdx(h, "SendMessage") # {}
    /\ \A k \in Handlers : registered[k] # "cleared"
    /\ DictGet(user_sessions, Author(h)) = adk_session_id[h]

(***************************************************************************)
(* C19 (as claimed).  When a handler makes its SendMessage call for user U *)
(* with session S, user_sessions maps U to S at that moment.               *)
(***************************************************************************)
C19_SendsRegisteredSession ==
  [][\A h \in Handlers :
       SendStep(h) => DictGet(user_sessions, Author(h)) = adk_session_id[h]]_vars

====
